---- MODULE Spec2Model ----
(***************************************************************************)
(* Reactive state engine of mini-framework: ReactiveState (the store),     *)
(* StateSecurity (the sanitizer), SubscribersManager (the dispatcher) and  *)
(* ComputedManager (the computed registry).                                *)
(*                                                                         *)
(* JavaScript objects live in a heap (object id -> own properties), so     *)
(* that reference identity (!==), in-place mutation and the stale `state`  *)
(* argument captured by a deferred pass are what they are in the code.     *)
(* A path string is modelled by the sequence path.split('.') yields.       *)
(* One action is one top-level call, one timer callback or one subscriber  *)
(* callback, each followed by the engine code that runs until the next     *)
(* subscriber callback is about to be invoked or the call stack is empty.  *)
(* The 'state:change' event emitted at the end of a pass has no listener.  *)
(***************************************************************************)
EXTENDS Integers, Sequences, FiniteSets, TLC

VARIABLES
  heap,               \* object id -> (own key -> value)
  state,              \* ReactiveState.state
  subscribers,        \* SubscribersManager.subscribers: path -> Set of subscriber ids
  subs,               \* every subscriber object (or refused subscription) so far: id -> [path, kind, name]
  isUpdating,         \* SubscribersManager.isUpdating
  pendingUpdates,     \* SubscribersManager.pendingUpdates (a Set: insertion ordered)
  updateCount,        \* SubscribersManager.updateCount
  timers,             \* setTimeout(..., 0) callbacks not yet run, FIFO
  pc,                 \* "idle" | "pass" | "task": where the single thread is
  cur,                \* the notify pass in progress
  task,               \* the timer callback in progress
  computedCache,      \* ComputedManager.computedCache
  computedDependencies, \* ComputedManager.computedDependencies
  hist                \* history (observation) record, no effect on the program

vars == <<heap, state, subscribers, subs, isUpdating, pendingUpdates, updateCount,
          timers, pc, cur, task, computedCache, computedDependencies, hist>>

----------------------------------------------------------------------------
(* Values *)

\* A JavaScript value held by the engine: undefined, a scalar, or a reference.
Undef == [t |-> "u", x |-> 0]
Scalar(n) == [t |-> "s", x |-> n]
Ref(id) == [t |-> "o", x |-> id]
IsObj(v) == v.t = "o"

\* The number NaN, which no value is strictly equal to; a !== b.
NaN == 0 - 1
StrictNotEqual(a, b) == a # b \/ a = Scalar(NaN)

\* null
Null == [t |-> "n", x |-> 0]

EmptyMap == <<>>

\* A value handed in by a caller (a literal, not yet in the heap).
PU == [t |-> "u", x |-> 0, m |-> EmptyMap]
PS(n) == [t |-> "s", x |-> n, m |-> EmptyMap]
PO(m) == [t |-> "o", x |-> 0, m |-> m]

\* Every key the model uses, in one fixed order (property enumeration order).
KeySeq == <<"0", "a", "b", "x", "__proto__", "constructor", "prototype", "", "*">>
Keys == {KeySeq[i] : i \in 1..Len(KeySeq)}

StarPath == <<"*">>

----------------------------------------------------------------------------
(* StateSecurity *)

\* StateSecurity.maxDepth: the constructor's default is 50; the model
\* instantiates the ceiling small.
maxDepth == 3

ReservedKeys == {"__proto__", "constructor", "prototype"}

\* key.trim() === ''
IsBlank(key) == key \in {"", " "}

validateKey(key) == key \notin ReservedKeys

\* path.trim() === '' holds of a one-segment blank path only: a dot is not
\* white space.  Non-string paths are modelled by the empty sequence, which
\* split never returns.
validatePath(path) ==
  /\ path # <<>>
  /\ ~(Len(path) = 1 /\ IsBlank(path[1]))
  /\ Len(path) <= maxDepth

\* The smallest object id not in use.
FreshId(h) == CHOOSE n \in 1..(Cardinality(DOMAIN h) + 1) :
                /\ n \notin DOMAIN h
                /\ \A m \in 1..(n - 1) : m \in DOMAIN h

\* sanitizeState: scalars as they are; an object becomes a fresh object in
\* which the reserved and the blank keys are dropped and every other value
\* is sanitized.  Returns the heap with the copy in it and the value.
RECURSIVE sanitizeState(_, _)
sanitizeState(h, pv) ==
  IF pv.t # "o" THEN [h |-> h, v |-> [t |-> pv.t, x |-> pv.x]]
  ELSE
    LET id == FreshId(h)
        RECURSIVE Entries(_, _)
        Entries(hh, i) ==
          IF i > Len(KeySeq) THEN hh
          ELSE LET key == KeySeq[i] IN
               IF key \notin DOMAIN pv.m \/ key \in ReservedKeys \/ IsBlank(key)
               THEN Entries(hh, i + 1)
               ELSE LET r == sanitizeState(hh, pv.m[key])
                    IN Entries([r.h EXCEPT ![id] = @ @@ (key :> r.v)], i + 1)
    IN [h |-> Entries(h @@ (id :> EmptyMap), 1), v |-> Ref(id)]

\* (Variant: sanitizeState filters the top-level keys only and keeps the
\* values as they are.)
sanitizeTopLevel(h, v) ==
  IF ~IsObj(v) THEN [h |-> h, v |-> v]
  ELSE LET id == FreshId(h) IN
       [h |-> h @@ (id :> [key \in {k \in DOMAIN h[v.x] : k \notin ReservedKeys /\ ~IsBlank(k)}
                             |-> h[v.x][key]]),
        v |-> Ref(id)]

\* sanitizeState applied to an object the caller holds (a value of the
\* heap): the same function as sanitizeState above, which is applied to a
\* literal.
RECURSIVE sanitizeHeap(_, _)
sanitizeHeap(h, v) ==
  IF ~IsObj(v) THEN [h |-> h, v |-> v]
  ELSE
    LET id == FreshId(h)
        src == h[v.x]
        RECURSIVE Entries(_, _)
        Entries(hh, i) ==
          IF i > Len(KeySeq) THEN hh
          ELSE LET key == KeySeq[i] IN
               IF key \notin DOMAIN src \/ key \in ReservedKeys \/ IsBlank(key)
               THEN Entries(hh, i + 1)
               ELSE LET r == sanitizeHeap(hh, src[key])
                    IN Entries([r.h EXCEPT ![id] = @ @@ (key :> r.v)], i + 1)
    IN [h |-> Entries(h @@ (id :> EmptyMap), 1), v |-> Ref(id)]

\* An exception leaves a public method uncaught.
Raise(s) == [s EXCEPT !.hist.thrown = TRUE]

\* Whether a value is nested at least n objects deep.
RECURSIVE NestedAtLeast(_, _, _)
NestedAtLeast(h, v, n) ==
  \/ n = 0
  \/ IsObj(v) /\ \E key \in DOMAIN h[v.x] : NestedAtLeast(h, h[v.x][key], n - 1)

\* Whether a value reaches itself: it is then nested deeper than the heap
\* has objects.  sanitizeState has no visited set and no depth counter, so
\* on such a value it recurses until the call stack is exhausted and a
\* RangeError is thrown.
Cyclic(h, v) == NestedAtLeast(h, v, Cardinality(DOMAIN h) + 1)

\* JSON.parse(JSON.stringify(v)) of a heap value: a fresh deep copy in which
\* properties whose value is undefined are left out and NaN has become
\* null; no key is filtered.
RECURSIVE JsonCopy(_, _)
JsonCopy(h, v) ==
  IF v = Scalar(NaN) THEN [h |-> h, v |-> Null]
  ELSE IF ~IsObj(v) THEN [h |-> h, v |-> v]
  ELSE
    LET id == FreshId(h)
        src == h[v.x]
        RECURSIVE Entries(_, _)
        Entries(hh, i) ==
          IF i > Len(KeySeq) THEN hh
          ELSE LET key == KeySeq[i] IN
               IF key \notin DOMAIN src \/ src[key].t = "u"
               THEN Entries(hh, i + 1)
               ELSE LET r == JsonCopy(hh, src[key])
                    IN Entries([r.h EXCEPT ![id] = @ @@ (key :> r.v)], i + 1)
    IN [h |-> Entries(h @@ (id :> EmptyMap), 1), v |-> Ref(id)]

\* A caller's literal brought into the heap as it is (what JSON.parse of the
\* caller's text yields: own properties, reserved names included).
RECURSIVE Literal(_, _)
Literal(h, pv) ==
  IF pv.t # "o" THEN [h |-> h, v |-> [t |-> pv.t, x |-> pv.x]]
  ELSE
    LET id == FreshId(h)
        RECURSIVE Entries(_, _)
        Entries(hh, i) ==
          IF i > Len(KeySeq) THEN hh
          ELSE LET key == KeySeq[i] IN
               IF key \notin DOMAIN pv.m THEN Entries(hh, i + 1)
               ELSE LET r == Literal(hh, pv.m[key])
                    IN Entries([r.h EXCEPT ![id] = @ @@ (key :> r.v)], i + 1)
    IN [h |-> Entries(h @@ (id :> EmptyMap), 1), v |-> Ref(id)]

\* The structure of a heap value, identity forgotten ("structurally equal").
RECURSIVE Content(_, _)
Content(h, v) ==
  IF ~IsObj(v) THEN [t |-> v.t, x |-> v.x, m |-> EmptyMap]
  ELSE [t |-> "o", x |-> 0, m |-> [key \in DOMAIN h[v.x] |-> Content(h, h[v.x][key])]]

\* The sanitized form of a caller's value, as a structure.
RECURSIVE Sanitized(_)
Sanitized(pv) ==
  IF pv.t # "o" THEN pv
  ELSE PO([key \in {k \in DOMAIN pv.m : k \notin ReservedKeys /\ ~IsBlank(k)} |->
             Sanitized(pv.m[key])])

\* Whether a structure holds a reserved key at any depth.
RECURSIVE HasReservedKey(_)
HasReservedKey(c) ==
  /\ c.t = "o"
  /\ \/ DOMAIN c.m \cap ReservedKeys # {}
     \/ \E key \in DOMAIN c.m : HasReservedKey(c.m[key])

----------------------------------------------------------------------------
(* The program state as one record, so that a handler that calls another   *)
(* handler composes.                                                       *)

S == [heap |-> heap, state |-> state, subscribers |-> subscribers, subs |-> subs,
      isUpdating |-> isUpdating, pendingUpdates |-> pendingUpdates,
      updateCount |-> updateCount, timers |-> timers, pc |-> pc, cur |-> cur,
      task |-> task, computedCache |-> computedCache,
      computedDependencies |-> computedDependencies, hist |-> hist]

NoPass == [path |-> <<>>, state |-> Undef, phase |-> "none", last |-> 0,
           attached |-> FALSE, toRemove |-> {}]
NoTask == [active |-> FALSE, rest |-> <<>>, state |-> Undef]

\* Set.prototype.add on an insertion-ordered Set held as a sequence.
SetAdd(seq, e) == IF \E i \in 1..Len(seq) : seq[i] = e THEN seq ELSE Append(seq, e)
Range(seq) == {seq[i] : i \in 1..Len(seq)}

----------------------------------------------------------------------------
(* ReactiveState.get *)

\* A built-in function, and the names every object and every boxed
\* scalar inherits such a function under (toString stands for them).
Builtin == [t |-> "f", x |-> 0]
InheritedKeys == {"toString"}

\* Whether a value of the tree is truthy (0 stands for the falsy scalars).
TruthyValue(v) == v.t \in {"o", "f"} \/ (v.t = "s" /\ v.x # 0 /\ v.x # NaN)

\* v[key] for a truthy v: the own property of an object, else what the
\* prototype chain (of the object, or of the boxed scalar) has under key.
Prop(h, v, key) ==
  IF IsObj(v) /\ key \in DOMAIN h[v.x] THEN h[v.x][key]
  ELSE IF key \in InheritedKeys THEN Builtin
  ELSE Undef

\* One step of the reduce in get: the accumulator after `key`
\* (`obj && obj[key] !== undefined ? obj[key] : undefined`).
GetStep(h, obj, key) ==
  IF ~validateKey(key) THEN Undef
  ELSE IF TruthyValue(obj) THEN Prop(h, obj, key)
  ELSE Undef

RECURSIVE GetReduce(_, _, _, _)
GetReduce(h, obj, path, i) ==
  IF i > Len(path) THEN obj ELSE GetReduce(h, GetStep(h, obj, path[i]), path, i + 1)

\* get(path): the whole state for a falsy path (omitted, or the empty
\* string), undefined for an invalid one, else the reduce over the keys.
Get(s, path) ==
  IF path = <<>> \/ path = <<"">> THEN s.state
  ELSE IF ~validatePath(path) THEN Undef
  ELSE GetReduce(s.heap, s.state, path, 1)

----------------------------------------------------------------------------
(* SubscribersManager *)

\* SubscribersManager.maxSubscribers and maxUpdatesPerCycle: constructor
\* parameters (defaults 1000 and 100), instantiated small.
maxSubscribers == 3
maxUpdatesPerCycle == 2

IterKey(s) == IF s.cur.phase = "path" THEN s.cur.path ELSE StarPath

\* (Variant: the forEach iterates everyone ever subscribed under the key.)
IterEverSubscribed(s) ==
  {k \in 1..Len(s.subs) : s.subs[k].path = IterKey(s)}

\* (Variant: the forEach also iterates the subscribers of the ancestor
\* paths of the key.)
IterWithAncestors(s) ==
  IF s.cur.attached /\ IterKey(s) \in DOMAIN s.subscribers
  THEN UNION {s.subscribers[p] : p \in {q \in DOMAIN s.subscribers :
                 \E n \in 1..Len(IterKey(s)) : q = SubSeq(IterKey(s), 1, n)}}
  ELSE {}

\* The Set a forEach of the pass is iterating.  It is the Set fetched when
\* the phase began; once unsubscribe has deleted that (then empty) Set from
\* the Map it stays empty, whatever the Map holds under the key later.
IterSet(s) ==
  IF s.cur.attached /\ IterKey(s) \in DOMAIN s.subscribers
  THEN s.subscribers[IterKey(s)] ELSE {}

\* Set.prototype.forEach visits the entries in insertion order, skips the
\* ones deleted before their turn and reaches the ones added meanwhile.
\* Subscriber ids grow with creation, so insertion order is id order.
Unvisited(s) == {k \in IterSet(s) : k > s.cur.last}
HasNext(s) == s.pc = "pass" /\ s.cur.phase \in {"path", "global"} /\ Unvisited(s) # {}

\* (Variant: the forEach starts from the entry inserted last.)
NewestSubscriber(s) == CHOOSE k \in Unvisited(s) : \A j \in Unvisited(s) : k >= j

NextSubscriber(s) == CHOOSE k \in Unvisited(s) : \A j \in Unvisited(s) : k <= j

TotalSubscribers(s) ==
  LET RECURSIVE Sum(_)
      Sum(P) == IF P = {} THEN 0
                ELSE LET p == CHOOSE q \in P : TRUE
                     IN Cardinality(s.subscribers[p]) + Sum(P \ {p})
  IN Sum(DOMAIN s.subscribers)

\* (Variant: the limit test lets one subscriber more in.)
AboveCeiling(s) == TotalSubscribers(s) > maxSubscribers

\* The subscriber limit test of subscribe (line 217).
AtCeiling(s) == TotalSubscribers(s) >= maxSubscribers

\* subscribe(pathOrCallback, callback) with a valid callback; `path` is
\* StarPath for the one-argument form.  `kind` and `name` say what the
\* callback is (a caller's function, or one that computed() makes).  At the
\* limit no subscriber is made and the closure returned is () => {}: for a
\* caller, who keeps the closure, `subs` records it with the kind "refused".
Subscribe(s, path, kind, name) ==
  IF AtCeiling(s)
  THEN IF kind = "user"
       THEN [s EXCEPT !.subs = Append(@, [path |-> path, kind |-> "refused", name |-> name])]
       ELSE s
  ELSE LET id == Len(s.subs) + 1
           old == IF path \in DOMAIN s.subscribers THEN s.subscribers[path] ELSE {}
       IN [s EXCEPT
             !.subscribers = [p \in DOMAIN s.subscribers \cup {path} |->
                                IF p = path THEN old \cup {id} ELSE s.subscribers[p]],
             !.subs = Append(s.subs, [path |-> path, kind |-> kind, name |-> name])]

\* (Variant: the handle drops the whole entry of its path.)
UnsubscribeWholePath(s, id) ==
  [s EXCEPT !.subscribers = [p \in DOMAIN s.subscribers \ {s.subs[id].path} |->
                               s.subscribers[p]],
            !.cur.attached = IF s.pc = "pass" /\ IterKey(s) = s.subs[id].path
                             THEN FALSE ELSE @]

\* The closure subscribe returns, for subscriber `id`.
Unsubscribe(s, id) ==
  LET path == s.subs[id].path IN
  IF s.subs[id].kind = "refused" THEN s
  ELSE IF path \notin DOMAIN s.subscribers THEN s
  ELSE LET left == s.subscribers[path] \ {id} IN
       IF left # {} THEN [s EXCEPT !.subscribers[path] = left]
       ELSE [s EXCEPT
               !.subscribers = [p \in DOMAIN s.subscribers \ {path} |-> s.subscribers[p]],
               !.cur.attached = IF s.pc = "pass" /\ IterKey(s) = path THEN FALSE ELSE @]

\* notifySubscribers, lines 270-279: which forEach comes next.
EnterGlobalPhase(s) ==
  IF StarPath \in DOMAIN s.subscribers
  THEN [s EXCEPT !.cur.phase = "global", !.cur.last = 0, !.cur.attached = TRUE,
                 !.cur.toRemove = {}, !.hist.done = {}]
  ELSE [s EXCEPT !.cur.phase = "done", !.cur.last = 0, !.cur.attached = FALSE,
                 !.cur.toRemove = {}, !.hist.done = {}]

\* (Variant: the path subscribers are passed over.)
WildcardOnly(s) == EnterGlobalPhase(s)

EnterPathPhase(s) ==
  IF s.cur.path # StarPath /\ s.cur.path \in DOMAIN s.subscribers
  THEN [s EXCEPT !.cur.phase = "path", !.cur.last = 0, !.cur.attached = TRUE,
                 !.cur.toRemove = {}, !.hist.done = {}]
  ELSE EnterGlobalPhase(s)

\* The end of notifyPathSubscribers / notifyGlobalSubscribers: the
\* subscribers that threw a TypeError or ReferenceError are deleted from
\* the Set that was iterated (the Map entry stays, even when empty).
RemoveProblematic(s) ==
  IF s.cur.attached /\ IterKey(s) \in DOMAIN s.subscribers
  THEN [s EXCEPT !.subscribers[IterKey(s)] = @ \ s.cur.toRemove]
  ELSE s

\* The arguments of subscriber.callback(...) in the forEach under way
\* (lines 318 and 343): the value get(changedPath) returns now for a path
\* subscriber, the `state` the pass was handed for a wildcard subscriber.
CallbackArg(s) ==
  IF s.cur.phase = "path" THEN <<Get(s, s.cur.path), s.cur.path>>
  ELSE <<s.cur.state, s.cur.path>>

\* A callback threw null or undefined.  The catch block reads error.name
\* (lines 321, 346), which throws a TypeError out of the forEach and out of
\* notifySubscribers: its finally block clears isUpdating, and the removal
\* of problematic subscribers, the pending updates and the reset of
\* updateCount are skipped.  In a timer callback the rest of the callback
\* is skipped as well.  set catches the exception; reset, loadSnapshot and
\* the timer do not.
EscapePass(s) ==
  [s EXCEPT !.isUpdating = FALSE,
            !.pc = "idle",
            !.cur = NoPass,
            !.task = NoTask,
            !.hist.done = {},
            !.hist.inner = {},
            !.hist.reqs = <<>>,
            !.hist.queue = <<>>,
            !.hist.order = <<>>,
            !.hist.dropped = s.hist.track /\ s.task.active /\ s.task.rest # <<>>,
            !.hist.thrown = s.task.active \/ s.hist.raw]

\* (Variant: the pending updates are left in place.)
FinishPassNoDrain(s) ==
  [s EXCEPT !.isUpdating = FALSE,
            !.pc = IF s.task.active THEN "task" ELSE "idle",
            !.cur = NoPass,
            !.hist.inner = {}]

\* notifySubscribers, lines 291-306: the finally block and the pending
\* updates.
FinishPass(s) ==
  LET s1 == [s EXCEPT !.isUpdating = FALSE,
                      !.pc = IF s.task.active THEN "task" ELSE "idle",
                      !.cur = NoPass,
                      !.hist.done = {},
                      !.hist.reqs = <<>>,
                      !.hist.inner = {}]
  IN IF Len(s.pendingUpdates) > 0
     THEN [s1 EXCEPT !.pendingUpdates = <<>>,
                     !.timers = Append(@, [pending |-> s.pendingUpdates,
                                           state |-> s.cur.state])]
     ELSE [s1 EXCEPT !.updateCount = 0]

\* The history counts passes up to this cap.
PassCap == maxUpdatesPerCycle + 2

\* (Variant: no reentrancy guard, the call dispatches inline.)
DeferredNever(s) == FALSE

\* Whether a call of notifySubscribers is deferred (line 254).
Deferred(s) == s.isUpdating

\* notifySubscribers(state, getValue, changedPath) up to the first forEach.
NotifySubscribers(s, stateArg, changedPath) ==
  IF Deferred(s)
  THEN [s EXCEPT !.pendingUpdates = SetAdd(@, changedPath)]
  ELSE IF s.updateCount + 1 > maxUpdatesPerCycle
  THEN [s EXCEPT !.updateCount = 0, !.pendingUpdates = <<>>,
                 !.hist.tripped = s.hist.track]
  ELSE EnterPathPhase([s EXCEPT !.updateCount = @ + 1,
                                !.hist.passes = IF s.hist.calls = 1 /\ s.hist.wb /\ @ < PassCap
                                                THEN @ + 1 ELSE @,
                                !.hist.todo = IF changedPath \in DOMAIN s.subscribers
                                                 /\ changedPath # StarPath
                                              THEN s.subscribers[changedPath] ELSE {},
                                !.hist.todoG = IF StarPath \in DOMAIN s.subscribers
                                               THEN s.subscribers[StarPath] ELSE {},
                                !.isUpdating = TRUE,
                                !.pc = "pass",
                                !.cur = [NoPass EXCEPT !.path = changedPath,
                                                       !.state = stateArg]])

\* The engine code that runs between two subscriber callbacks: the rest of
\* the forEach, the next forEach, the end of the pass, and in a timer
\* callback the next pending path and the final updateCount = 0.
RECURSIVE Run(_)
Run(s) ==
  IF s.pc = "pass"
  THEN IF HasNext(s) THEN s
       ELSE IF s.cur.phase = "path" THEN Run(EnterGlobalPhase(RemoveProblematic(s)))
       ELSE IF s.cur.phase = "global" THEN Run(FinishPass(RemoveProblematic(s)))
       ELSE Run(FinishPass(s))
  ELSE IF s.pc = "task"
  THEN IF s.task.rest = <<>>
       THEN [s EXCEPT !.updateCount = 0, !.pc = "idle", !.task = NoTask,
                      !.hist.queue = <<>>, !.hist.order = <<>>]
       ELSE Run(NotifySubscribers([s EXCEPT !.task.rest = Tail(@),
                                            !.hist.order = IF s.hist.track
                                                           THEN Append(@, Head(s.task.rest))
                                                           ELSE @],
                                  s.task.state, Head(s.task.rest)))
  ELSE s

----------------------------------------------------------------------------
(* ReactiveState: mutation *)

\* ReactiveState.notifySubscribers(changedPath): the dispatcher is handed
\* the object this.state refers to now.
StateNotify(s, changedPath) ==
  NotifySubscribers(IF s.pc = "pass"
                    THEN [s EXCEPT !.hist.inner = @ \cup {changedPath},
                                   !.hist.reqs = IF s.hist.track
                                                 THEN Append(@, changedPath) ELSE @,
                                   !.hist.req = changedPath]
                    ELSE IF s.hist.track
                    THEN [s EXCEPT !.hist.top = changedPath,
                                   !.hist.owed = IF changedPath \in DOMAIN s.subscribers
                                                 THEN s.subscribers[changedPath] ELSE {}]
                    ELSE s,
                    s.state, changedPath)

\* The reduce of setByPath (lines 136-146) from object `obj` over keys[i..]:
\* a reserved key is stepped over (the accumulator stays where it is), a
\* value that is falsy or not an object is replaced by a fresh {}.
RECURSIVE Navigate(_, _, _, _)
Navigate(h, obj, keys, i) ==
  IF i > Len(keys) THEN [h |-> h, obj |-> obj]
  ELSE LET key == keys[i] IN
       IF ~validateKey(key) THEN Navigate(h, obj, keys, i + 1)
       ELSE IF key \in DOMAIN h[obj] /\ IsObj(h[obj][key])
       THEN Navigate(h, h[obj][key].x, keys, i + 1)
       ELSE LET id == FreshId(h)
                h1 == [h EXCEPT ![obj] = (key :> Ref(id)) @@ @] @@ (id :> EmptyMap)
            IN Navigate(h1, id, keys, i + 1)

\* (Variant: setByPath notifies whether or not the value changed.)
setByPathAlways(s, path, pv) ==
  IF ~validatePath(path) THEN s
  ELSE LET keys == SubSeq(path, 1, Len(path) - 1)
           lastKey == path[Len(path)]
       IN IF ~validateKey(lastKey) THEN s
          ELSE IF ~IsObj(s.state) THEN s
          ELSE LET nav == Navigate(s.heap, s.state.x, keys, 1)
                   parent == nav.obj
                   san == sanitizeState(nav.h, pv)
                   s1 == [s EXCEPT !.heap = [san.h EXCEPT ![parent] = (lastKey :> san.v) @@ @]]
               IN StateNotify(s1, path)

\* setByPath(path, value).  With a root that is not an object the first
\* property write throws a TypeError (module code is strict), which set
\* catches: nothing has changed by then.
setByPath(s, path, pv) ==
  IF ~validatePath(path) THEN s
  ELSE LET keys == SubSeq(path, 1, Len(path) - 1)
           lastKey == path[Len(path)]
       IN IF ~validateKey(lastKey) THEN s
          ELSE IF ~IsObj(s.state) THEN s
          ELSE LET nav == Navigate(s.heap, s.state.x, keys, 1)
                   parent == nav.obj
                   oldValue == Prop(nav.h, Ref(parent), lastKey)
                   san == sanitizeState(nav.h, pv)
                   s1 == [s EXCEPT !.heap = [san.h EXCEPT ![parent] = (lastKey :> san.v) @@ @]]
               IN IF StrictNotEqual(oldValue, san.v) THEN StateNotify(s1, path) ELSE s1

\* (Variant: the spread lets the old root's properties win.)
SpreadOldWins(h, old, add) ==
  LET id == FreshId(h)
      base == IF IsObj(old) THEN h[old.x] ELSE EmptyMap
  IN [h |-> h @@ (id :> (base @@ h[add.x])), v |-> Ref(id)]

\* { ...this.state, ...sanitizedState }: a fresh object with the own
\* properties of the old root (none when it is not an object), then those
\* of the sanitized argument.
Spread(h, old, add) ==
  LET id == FreshId(h)
      base == IF IsObj(old) THEN h[old.x] ELSE EmptyMap
  IN [h |-> h @@ (id :> (h[add.x] @@ base)), v |-> Ref(id)]

\* The top-level keys of a root and what they hold (none when the root
\* is not an object).
RootOf(h, root) == IF IsObj(root) THEN h[root.x] ELSE EmptyMap

\* Whether the tree of s1 is the tree of s with the caller's partial
\* merged in at the top: the keys of the sanitized partial hold its
\* sanitized values, every other key holds the very value it held, and no
\* object of the old tree has been touched.
ShallowMerged(s, s1, pv) ==
  LET old == RootOf(s.heap, s.state)
      new == RootOf(s1.heap, s1.state)
      part == Sanitized(pv).m
  IN /\ IsObj(s1.state)
     /\ DOMAIN new = DOMAIN old \cup DOMAIN part
     /\ \A key \in DOMAIN part : Content(s1.heap, new[key]) = part[key]
     /\ \A key \in DOMAIN old \ DOMAIN part : new[key] = old[key]
     /\ \A id \in DOMAIN s.heap : s1.heap[id] = s.heap[id]

\* Whether the merge replaces a key that held something else and leaves
\* another key alone.
MergeReplaces(s, pv) ==
  LET old == RootOf(s.heap, s.state)
      part == Sanitized(pv).m
  IN /\ \E key \in DOMAIN old \cap DOMAIN part :
          Content(s.heap, old[key]) # part[key]
     /\ DOMAIN old \ DOMAIN part # {}

\* set(pathOrState, value), the object form.  (The history notes whether
\* every merge so far was a shallow merge, and a merge that replaced.)
setMerge(s, pv) ==
  LET san == sanitizeState(s.heap, pv)
      mer == Spread(san.h, s.state, san.v)
      s1 == [s EXCEPT !.heap = mer.h, !.state = mer.v]
  IN StateNotify([s1 EXCEPT !.hist.shallow = @ /\ ShallowMerged(s, s1, pv),
                            !.hist.replaced = s.hist.track /\ MergeReplaces(s, pv)],
                 StarPath)

\* Whether the path holds the scalar the caller is about to write.
SameScalar(s, path, pv) == pv.t = "s" /\ Get(s, path) = Scalar(pv.x)

\* Whether the dispatcher is in s1 as it was in s.
Undisturbed(s, s1) ==
  /\ s1.pc = s.pc /\ s1.cur = s.cur /\ s1.isUpdating = s.isUpdating
  /\ s1.pendingUpdates = s.pendingUpdates /\ s1.updateCount = s.updateCount
  /\ s1.timers = s.timers /\ s1.task = s.task
  /\ s1.hist.top = s.hist.top /\ s1.hist.req = s.hist.req

\* set(pathOrState, value): `path` is the split string of the string form.
\* (The history notes a write of the scalar the path already held, and
\* whether every such write left the dispatcher alone.)
Set(s, path, pv) ==
  LET s1 == setByPath(s, path, pv) IN
  IF SameScalar(s, path, pv)
  THEN [s1 EXCEPT !.hist.same = @ \/ (s.hist.track /\ pv.x # NaN),
                  !.hist.quiet = @ /\ Undisturbed(s, s1),
                  !.hist.quietN = @ /\ (pv.x # NaN => Undisturbed(s, s1))]
  ELSE s1

\* The first argument of set: a mapping literal, a sequence literal (an
\* array, whose own enumerable properties are its indices), a string (held
\* split at the dots) or anything else (a number, a boolean, null,
\* undefined, a function).
ArgMapping(m) == [t |-> "o", p |-> <<>>, m |-> m]
ArgSequence(m) == [t |-> "a", p |-> <<>>, m |-> m]
ArgPath(path) == [t |-> "str", p |-> path, m |-> EmptyMap]
ArgOther == [t |-> "n", p |-> <<>>, m |-> EmptyMap]

\* Whether a first argument is one the caller may not pass: neither a
\* mapping nor a string, or a string that is blank or has more than
\* maxDepth segments.
InvalidFirst(first) ==
  \/ first.t \notin {"o", "str"}
  \/ first.t = "str" /\ (first.p = <<>> \/ (Len(first.p) = 1 /\ IsBlank(first.p[1]))
                          \/ Len(first.p) > maxDepth)

\* Whether s1 is s but for the history: same tree, same dispatcher.
NoEffect(s, s1) ==
  /\ s1.heap = s.heap /\ s1.state = s.state
  /\ s1.subscribers = s.subscribers
  /\ Undisturbed(s, s1)
  /\ ~s1.hist.thrown

\* set(pathOrState, value): `typeof pathOrState === 'object'` and not
\* null (mappings and arrays alike) is merged, a string is a path,
\* anything else is reported.  (The history notes whether every call so
\* far with an invalid first argument had no effect.)
set(s, first, pv) ==
  LET s1 == IF first.t \in {"o", "a"} THEN setMerge(s, PO(first.m))
            ELSE IF first.t = "str" THEN Set(s, first.p, pv)
            ELSE s
  IN [s1 EXCEPT !.hist.noop = @ /\ (InvalidFirst(first) => NoEffect(s, s1))]

\* Whether a value is truthy (0 stands for the falsy scalars).
Truthy(pv) == pv.t = "o" \/ (pv.t = "s" /\ pv.x # 0 /\ pv.x # NaN)

\* ComputedManager.clear
ComputedClear(s) == [s EXCEPT !.computedCache = EmptyMap, !.computedDependencies = EmptyMap]

\* reset(newInitialState)
Reset(s, pv) ==
  LET san == IF Truthy(pv) THEN sanitizeState(s.heap, pv)
             ELSE sanitizeState(s.heap, PO(EmptyMap))
  IN StateNotify(ComputedClear([s EXCEPT !.heap = san.h, !.state = san.v]), StarPath)

\* loadSnapshot(snapshot) for a snapshot JSON can express (for undefined
\* JSON.parse throws to the caller).
LoadSnapshot(s, pv) ==
  LET lit == Literal(s.heap, pv)
      cp == JsonCopy(lit.h, lit.v)
  IN StateNotify([s EXCEPT !.heap = cp.h, !.state = cp.v], StarPath)

\* loadSnapshot(snapshot) for an object the caller holds.
LoadSnapshotOf(s, v) ==
  LET cp == JsonCopy(s.heap, v)
  IN StateNotify([s EXCEPT !.heap = cp.h, !.state = cp.v], StarPath)

\* getSnapshot(): the copy is the caller's from now on (hist.snap).
GetSnapshot(s) ==
  LET cp == JsonCopy(s.heap, s.state)
  IN [s EXCEPT !.heap = cp.h, !.hist.snap = cp.v]

\* The caller writes into the snapshot object it holds: snapshot.a.x = v
\* when snapshot.a is an object, else snapshot.a = v.
PokeSnapshot(s, v) ==
  LET o == s.hist.snap.x
      inner == "a" \in DOMAIN s.heap[o] /\ IsObj(s.heap[o]["a"])
  IN IF inner
     THEN [s EXCEPT !.heap[s.heap[o]["a"].x] = ("x" :> v) @@ @]
     ELSE [s EXCEPT !.heap[o] = ("a" :> v) @@ @]

----------------------------------------------------------------------------
(* ComputedManager *)

\* The computeFn of the model's computed entries, after the one of the
\* documentation, get("first") + " " + get("last"): it reads the paths a
\* and b and joins what it finds (an object reads as 9, undefined as 0).
Digit(v) == IF v.t = "u" THEN 0 ELSE IF v.t = "s" THEN v.x ELSE 9
ComputeFn(s) == Scalar(10 * Digit(Get(s, <<"a">>)) + Digit(Get(s, <<"b">>)))

CacheGet(s, name) ==
  IF name \in DOMAIN s.computedCache THEN s.computedCache[name] ELSE Undef

\* getComputed(name)
getComputed(s, name) == CacheGet(s, name)

RECURSIVE SubscribeAll(_, _, _, _)
SubscribeAll(s, deps, i, name) ==
  IF i > Len(deps) THEN s
  ELSE SubscribeAll(Subscribe(s, deps[i], "computed", name), deps, i + 1, name)

\* computed(name, computeFn, dependencies)
Computed(s, name, deps) ==
  LET s1 == [s EXCEPT !.computedDependencies = (name :> deps) @@ @,
                      !.computedCache = (name :> ComputeFn(s)) @@ @]
  IN SubscribeAll(s1, deps, 1, name)

\* The callback computed() subscribes for each dependency (lines 23-32).
ComputedCallback(s, name) ==
  LET newValue == ComputeFn(s)
      oldValue == CacheGet(s, name)
  IN IF StrictNotEqual(newValue, oldValue)
     THEN Subscribe([s EXCEPT !.computedCache = (name :> newValue) @@ @],
                    <<"computed", name>>, "noop", "")
     ELSE s

----------------------------------------------------------------------------
(* Garbage and naming of heap objects.  Only the objects the program can   *)
(* still reach are kept, numbered in the order a walk from the roots meets *)
(* them, so that two heaps of the same shape are the same state.           *)

Roots(s) ==
  <<s.state, s.hist.snap, s.hist.out>> \o (IF s.pc = "pass" THEN <<s.cur.state>> ELSE <<>>)
              \o (IF s.task.active THEN <<s.task.state>> ELSE <<>>)
              \o [i \in 1..Len(s.timers) |-> s.timers[i].state]

RECURSIVE ObjIds(_, _)
ObjIds(vals, i) ==
  IF i > Len(vals) THEN <<>>
  ELSE (IF IsObj(vals[i]) THEN <<vals[i].x>> ELSE <<>>) \o ObjIds(vals, i + 1)

RECURSIVE Walk(_, _, _)
Walk(h, todo, seen) ==
  IF todo = <<>> THEN seen
  ELSE LET id == Head(todo) IN
       IF id \in Range(seen) THEN Walk(h, Tail(todo), seen)
       ELSE LET kids == ObjIds([i \in 1..Len(KeySeq) |->
                                  IF KeySeq[i] \in DOMAIN h[id] THEN h[id][KeySeq[i]]
                                  ELSE Undef], 1)
            IN Walk(h, kids \o Tail(todo), Append(seen, id))

Canon(s) ==
  LET order == Walk(s.heap, ObjIds(Roots(s), 1), <<>>)
      Num(id) == CHOOSE n \in 1..Len(order) : order[n] = id
      Ren(v) == IF IsObj(v) THEN Ref(Num(v.x)) ELSE v
  IN [s EXCEPT
        !.heap = [n \in 1..Len(order) |->
                    [key \in DOMAIN s.heap[order[n]] |-> Ren(s.heap[order[n]][key])]],
        !.state = Ren(@),
        !.hist.snap = Ren(@),
        !.hist.out = Ren(@),
        !.cur.state = Ren(@),
        !.task.state = Ren(@),
        !.timers = [i \in 1..Len(s.timers) |-> [s.timers[i] EXCEPT !.state = Ren(@)]]]

Install(s) ==
  /\ heap' = s.heap
  /\ state' = s.state
  /\ subscribers' = s.subscribers
  /\ subs' = s.subs
  /\ isUpdating' = s.isUpdating
  /\ pendingUpdates' = s.pendingUpdates
  /\ updateCount' = s.updateCount
  /\ timers' = s.timers
  /\ pc' = s.pc
  /\ cur' = s.cur
  /\ task' = s.task
  /\ computedCache' = s.computedCache
  /\ computedDependencies' = s.computedDependencies
  /\ hist' = s.hist

\* A handler's effect, run to the next callback or to the empty stack.
Finish(s) == Install(Canon(Run(s)))

----------------------------------------------------------------------------
(* Inputs *)

\* The values callers hand in.
Lit(i) ==
  CASE i = 0 -> PU
    [] i = 1 -> PS(1)
    [] i = 2 -> PS(2)
    [] i = 3 -> PO("x" :> PS(1))
    [] i = 4 -> PO("__proto__" :> PS(1) @@ "b" :> PS(2))
    [] i = 5 -> PO("a" :> PO("constructor" :> PS(1) @@ "x" :> PS(2)))
    [] i = 6 -> PO(EmptyMap)
    [] i = 7 -> PO("a" :> PS(1) @@ "b" :> PS(1))
    [] i = 8 -> PS(NaN)
    [] OTHER -> PS(0)

\* What a caller's callback does when invoked (one engine call at most).
Behaviour(op, p, v, k) == [op |-> op, p |-> p, v |-> v, k |-> k]
Nop == Behaviour("nop", <<>>, 0, 0)

\* Callers create at most MaxIds subscriptions, and a callback mutates the
\* store only while at most MaxTimers deferred passes are outstanding.
MaxIds == 2
MaxSubs == maxSubscribers + MaxIds
MaxTimers == 2

----------------------------------------------------------------------------
(* History: what the last step did, for stating properties.  Nothing in    *)
(* the program reads it.                                                   *)

NoCall == [op |-> "none", path |-> <<>>, v |-> 0]
NoGet == [done |-> FALSE, path |-> <<>>, c |-> PU]

Mutators == {"set", "merge", "reset", "load"}

\* Who is registered: the (path, subscriber) pairs of the registry.
Registered(s) == UNION {{<<p, k>> : k \in s.subscribers[p]} : p \in DOMAIN s.subscribers}

\* A call of the unsubscribe handle of subscriber k, observed.
CallHandle(s, k) ==
  LET s1 == Unsubscribe(s, k) IN
  [s1 EXCEPT !.hist.unsub = @ \cup {k},
             !.hist.idem = @ /\ (k \in s.hist.unsub => Registered(s1) = Registered(s)),
             !.hist.again = @ \/ (k \in s.hist.unsub
                                  /\ \E pk \in Registered(s) : pk[1] = s.subs[k].path)]

\* The paths some computed entry depends on.
DependencyPaths(s) ==
  UNION {Range(s.computedDependencies[n]) : n \in DOMAIN s.computedDependencies}

\* A top-level call or timer callback begins.  hist.call is the set call
\* being served, if any and if calls are tracked; hist.calls counts the
\* mutating calls up to 2, hist.passes the passes since the last of them.
Called(s, op, path, v) ==
  [s EXCEPT !.hist.call = IF s.hist.track
                          THEN [op |-> op, path |-> path, v |-> v] ELSE NoCall,
            !.hist.req = <<>>,
            !.hist.top = <<>>,
            !.hist.owed = {},
            !.hist.argok = TRUE,
            !.hist.threw = FALSE,
            !.hist.lastE = 0,
            !.hist.same = FALSE,
            !.hist.replaced = FALSE,
            !.hist.got = NoGet,
            !.hist.visible = FALSE,
            !.hist.tripped = FALSE,
            !.hist.dropped = FALSE,
            !.hist.thrown = FALSE,
            !.hist.raw = op \in {"reset", "load"},
            !.hist.dep = @ /\ (op \in Mutators => op = "set" /\ path \in DependencyPaths(s)),
            !.hist.calls = IF op \in Mutators /\ @ < 2 THEN @ + 1 ELSE @,
            !.hist.passes = IF op \in Mutators THEN 0 ELSE @]
\* (hist.passes counts only while one mutating call has been made and
\* hist.wb holds, and is 0 otherwise.)

----------------------------------------------------------------------------
(* Actions *)

Idle == pc = "idle"

\* set(path, value) at top level.
ASet(path, i) ==
  /\ Idle
  /\ Finish(Set(Called(S, "set", path, i), path, Lit(i)))

\* set(first, value) at top level, for any first argument.
ASetFirst(first, i) ==
  /\ Idle
  /\ Finish(set(Called(S, "set", first.p, i), first, Lit(i)))

\* get(path) at top level (the empty sequence: path omitted).
AGet(path) ==
  /\ Idle
  /\ LET s == Called(S, "get", path, 0) IN
     Finish([s EXCEPT !.hist.got = [done |-> TRUE, path |-> path,
                                    c |-> Content(s.heap, Get(s, path))]])

\* getSnapshot() at top level.
AGetSnapshot ==
  /\ Idle
  /\ Finish(GetSnapshot(Called(S, "snapshot", <<>>, 0)))

\* loadSnapshot(snapshot) with the snapshot object the caller holds.
ALoadHeld ==
  /\ Idle
  /\ hist.snap # Undef
  /\ Finish(LoadSnapshotOf(Called(S, "load", <<>>, 0), hist.snap))

\* loadSnapshot(getSnapshot()) at top level.
ARoundTrip ==
  /\ Idle
  /\ LET s == Called(S, "roundtrip", <<>>, 0)
         cp == JsonCopy(s.heap, s.state)
     IN Finish(LoadSnapshotOf([s EXCEPT !.heap = cp.h], cp.v))

\* The caller mutates the snapshot object it holds.
APoke(i) ==
  /\ Idle
  /\ IsObj(hist.snap)
  /\ Finish(PokeSnapshot(Called(S, "poke", <<>>, i), Scalar(i)))

\* The caller makes a value of its own (hist.snap holds it).
AHold(pv) ==
  /\ Idle
  /\ LET s == Called(S, "hold", <<>>, 0)
         lit == Literal(s.heap, pv)
     IN Finish([s EXCEPT !.heap = lit.h, !.hist.snap = lit.v, !.hist.out = Undef])

\* security.sanitizeState(value) with the value the caller holds.
ASanitize ==
  /\ Idle
  /\ hist.call.op = "hold"
  /\ LET s == Called(S, "sanitize", <<>>, 0)
         san == sanitizeHeap(s.heap, s.hist.snap)
     IN IF Cyclic(s.heap, s.hist.snap) THEN Finish(Raise(s))
        ELSE Finish([s EXCEPT !.heap = san.h, !.hist.out = san.v])

\* The caller makes the object it holds refer to itself: value.a = value.
ATie ==
  /\ Idle
  /\ hist.call.op = "hold"
  /\ IsObj(hist.snap)
  /\ Finish([Called(S, "hold", <<>>, 0) EXCEPT !.heap[hist.snap.x] = ("a" :> hist.snap) @@ @])

\* set(partial) at top level.
AMerge(i) ==
  /\ Idle
  /\ Lit(i).t = "o"
  /\ Finish(setMerge(Called(S, "merge", <<>>, i), Lit(i)))

\* reset(newInitialState) at top level.
AReset(i) ==
  /\ Idle
  /\ Finish(Reset(Called(S, "reset", <<>>, i), Lit(i)))

\* loadSnapshot(snapshot) at top level.
ALoadSnapshot(i) ==
  /\ Idle
  /\ Lit(i).t # "u"
  /\ Finish(LoadSnapshot(Called(S, "load", <<>>, i), Lit(i)))

\* The subscribe calls callers have made (each has returned a closure).
UserIds(s) == {k \in 1..Len(s.subs) : s.subs[k].kind \in {"user", "refused"}}

\* The updaters callers pass: "flip" returns 2 for the value 1 and 1 for
\* any other (as an index of Lit), "throw" throws.
UpdaterResult(v) == IF v = Scalar(1) THEN 2 ELSE 1

\* update(path, updater) at top level: get, the updater outside any
\* try/catch, then set.
AUpdate(path, f) ==
  /\ Idle
  /\ LET i == UpdaterResult(Get(S, path)) IN
       Finish(IF f = "throw" THEN Raise(Called(S, "update", path, 0))
              ELSE Set(Called(S, "set", path, i), path, Lit(i)))

\* subscribe(path, callback) or subscribe(callback) at top level.
ASubscribe(path) ==
  /\ Idle
  /\ Cardinality(UserIds(S)) < MaxIds
  /\ Finish(Subscribe(Called(S, "subscribe", path, 0), path, "user", ""))

\* An unsubscribe handle called at top level.
AUnsubscribe(k) ==
  /\ Idle
  /\ k \in UserIds(S)
  /\ Finish(CallHandle(Called(S, "unsubscribe", <<>>, 0), k))

\* computed(name, computeFn, dependencies) at top level.
AComputed(name, deps) ==
  /\ Idle
  /\ \A k \in 1..Len(subs) : subs[k].kind # "computed"
  /\ Finish([Computed(Called(S, "computed", <<>>, 0), name, deps) EXCEPT !.hist.dep = TRUE])

\* The oldest setTimeout callback runs (lines 300-303).
ATimer ==
  /\ Idle
  /\ timers # <<>>
  /\ Finish([Called(S, "timer", <<>>, 0) EXCEPT
               !.timers = Tail(@),
               !.hist.queue = IF hist.track THEN Head(timers).pending ELSE <<>>,
               !.pc = "task",
               !.task = [active |-> TRUE, rest |-> Head(timers).pending,
                         state |-> Head(timers).state]])

\* Whether behaviour b may be what the callback of subscriber k does now.
MayDo(s, k, b) ==
  CASE b.op \in {"set", "merge", "reset", "load"} ->
         s.pendingUpdates # <<>> \/ Len(s.timers) < MaxTimers
    [] b.op = "sub" -> Cardinality(UserIds(s)) < MaxIds
    [] b.op = "unsub" -> b.k \in UserIds(s)
    [] OTHER -> TRUE

\* The body of a caller's callback.
UserCallback(s, k, b) ==
  CASE b.op = "set" ->
         LET s1 == Set(s, b.p, Lit(b.v)) IN
         [s1 EXCEPT !.hist.visible = s.hist.track
                       /\ Content(s1.heap, Get(s1, b.p)) # Content(s.heap, Get(s, b.p))]
    [] b.op = "merge" -> setMerge(s, Lit(b.v))
    [] b.op = "reset" -> Reset(s, Lit(b.v))
    [] b.op = "load" -> LoadSnapshot(s, Lit(b.v))
    [] b.op = "sub" -> Subscribe(s, b.p, "user", "")
    [] b.op = "unsub" -> CallHandle(s, b.k)
    [] b.op = "throwT" -> [s EXCEPT !.cur.toRemove = @ \cup {k},
                                    !.hist.evicted = IF s.hist.track THEN @ \cup {k} ELSE @]
    [] b.op = "throwN" -> EscapePass(s)
    [] OTHER -> s

\* What a computeFn may do instead of returning: throw an Error ("failE"),
\* a TypeError or ReferenceError ("failT"), or null or undefined ("failN").
FailOps == {"failE", "failT", "failN"}

\* The callback computed() registered (lines 23-32) when computeFn throws:
\* line 24 is left at once, the cache is not touched, and the exception
\* reaches the catch block of the forEach like that of any callback.
FailedCompute(s, k, b) ==
  CASE b.op = "failT" -> [s EXCEPT !.cur.toRemove = @ \cup {k},
                                   !.hist.evicted = IF s.hist.track THEN @ \cup {k} ELSE @]
    [] b.op = "failN" -> EscapePass(s)
    [] OTHER -> s

\* Whether the callback writes a value back to its own path that differs
\* from the one the path holds.
IsWriteBack(s, k, b) ==
  /\ s.subs[k].kind = "user"
  /\ b.op = "set"
  /\ b.p = s.subs[k].path
  /\ Content(s.heap, Get(s, b.p)) # Sanitized(Lit(b.v))

\* One iteration of the forEach in notifyPathSubscribers or
\* notifyGlobalSubscribers: the callback of the next subscriber, with its
\* try/catch.
Callback(s, b) ==
  LET k == NextSubscriber(s)
      served == /\ s.hist.call.op = "set"
                /\ s.cur.phase = "path"
                /\ s.cur.path = s.hist.call.path
      s1 == [s EXCEPT !.cur.last = k,
                      !.hist.todo = @ \ {k},
                      !.hist.todoG = @ \ {k},
                      !.hist.owed = @ \ {k},
                      !.hist.argok = @ /\ (served =>
                          /\ CallbackArg(s)[1] = Get(s, s.hist.call.path)
                          /\ CallbackArg(s)[2] = s.hist.call.path),
                      !.hist.lastE = IF s.hist.track /\ s.subs[k].kind = "user" /\ b.op = "throwE"
                                     THEN k ELSE 0,
                      !.hist.threw = @ \/ (s.subs[k].kind = "user"
                                            /\ b.op \in {"throwT", "throwE", "throwN"})
                                       \/ (s.subs[k].kind = "computed" /\ b.op \in FailOps),
                      !.hist.req = <<>>,
                      !.hist.done = IF s.hist.track THEN @ \cup {k} ELSE @,
                      !.hist.visible = FALSE,
                      !.hist.wb = @ /\ IsWriteBack(s, k, b),
                      !.hist.dep = @ /\ ~(s.subs[k].kind = "user" /\ b.op \in Mutators),
                      !.hist.passes = IF s.hist.wb /\ IsWriteBack(s, k, b) THEN @ ELSE 0]
  IN CASE s.subs[k].kind = "user" -> UserCallback(s1, k, b)
       [] s.subs[k].kind = "computed" /\ b.op \in FailOps -> FailedCompute(s1, k, b)
       [] s.subs[k].kind = "computed" -> ComputedCallback(s1, s.subs[k].name)
       [] OTHER -> s1

ACallback(b) ==
  /\ HasNext(S)
  /\ LET k == NextSubscriber(S) IN
       IF subs[k].kind = "user" THEN MayDo(S, k, b) /\ b.op \notin FailOps
       ELSE IF subs[k].kind = "computed" THEN b = Nop \/ b.op \in FailOps
       ELSE b = Nop
  /\ Finish(Callback(S, b))

----------------------------------------------------------------------------
(* The engine with callers' subscribers: scalar values at the paths a and  *)
(* b, callbacks that set, subscribe, unsubscribe or throw.                 *)

PA == <<"a">>
PB == <<"b">>

\* hist.unsub: the subscribers whose unsubscribe handle has been called.
\* hist.todo: the subscribers of the changed path at the start of the latest
\* pass whose callback has not run in it.  hist.inner: the paths whose
\* notification was requested from inside a callback of the pass.
\* hist.req: the path whose notification the callback of the last step
\* requested (<<>>: none).  hist.idem: no repeated call of an unsubscribe
\* handle has changed who is registered.
\* hist.wb: every callback so far wrote a new value back to its own path.
\* hist.again: a handle was called again while its path had a subscriber.
\* hist.top: the path whose notification the latest top-level call
\* requested (<<>>: none).  hist.dep: computed() has been called, and every
\* mutation since was a top-level path-form set of a dependency path.
\* hist.todoG: as hist.todo, for the wildcard subscribers.  hist.owed: the
\* subscribers of the path the tracked top-level set changed whose callback
\* has not run in its pass.  hist.argok: every path subscriber invoked in
\* that pass got (the value at the path of the call, that path).
\* hist.threw: a callback has thrown since the latest top-level call or
\* timer callback began.  hist.thrown: an exception has left that call
\* uncaught.  hist.raw: that call is one the store does not wrap in
\* try/catch (reset, loadSnapshot).  hist.evicted: the subscribers whose
\* callback has thrown a TypeError or ReferenceError.  hist.lastE: the
\* subscriber whose callback, in the last step, threw another error (0:
\* none).  (Both are kept when calls are tracked.)  hist.same: a set
\* since the last top-level call wrote the scalar other than NaN its path
\* already held (kept when calls are tracked).  hist.quiet: every set so
\* far of a path to the scalar it held left the dispatcher as it was;
\* hist.quietN: the same for the scalars other than NaN.  hist.shallow:
\* every object-form set so far was a shallow merge into the root.
\* hist.replaced: the last top-level call was an object-form set that
\* replaced a key holding something else and left another key alone (kept
\* when calls are tracked).  hist.noop: every set so far with an invalid
\* first argument changed nothing.  hist.got: the path and the result's
\* structure of the get that was the last top-level call.  hist.visible:
\* the callback of the last step made a set after which, still inside the
\* callback, get of the path returned another value than before the set
\* (kept when calls are tracked).  hist.snap: the snapshot the caller
\* holds (the result of its last getSnapshot), undefined when none.
\* hist.done: the subscribers invoked so far in the forEach under way (kept
\* when calls are tracked).  hist.out: what the caller's last call of
\* sanitizeState returned.  hist.tripped: the update budget was found
\* exceeded since the last top-level call or timer callback began.
\* hist.reqs: the paths handed to notifySubscribers during the pass under
\* way, in order, repeats included.  hist.queue: the pending list the timer
\* callback under way was created with; hist.order: the paths it has
\* handed to notifySubscribers so far.  hist.dropped: the last timer
\* callback ended with paths of its list not handed over.  (All kept when
\* calls are tracked.)
InitHist(track) == [track |-> track, call |-> NoCall, unsub |-> {}, idem |-> TRUE,
                    again |-> FALSE,
                    passes |-> 0, calls |-> 0, wb |-> TRUE, todo |-> {}, inner |-> {},
                    req |-> <<>>, top |-> <<>>, dep |-> FALSE,
                    todoG |-> {}, owed |-> {}, argok |-> TRUE, threw |-> FALSE,
                    thrown |-> FALSE, raw |-> FALSE, evicted |-> {}, lastE |-> 0,
                    same |-> FALSE, quiet |-> TRUE, quietN |-> TRUE,
                    shallow |-> TRUE, replaced |-> FALSE, noop |-> TRUE,
                    got |-> NoGet, visible |-> FALSE, snap |-> Undef,
                    done |-> {}, out |-> Undef, tripped |-> FALSE,
                    reqs |-> <<>>, queue |-> <<>>, order |-> <<>>, dropped |-> FALSE]

\* new ReactiveState(initialState)
InitWith(i, track) ==
  LET san == sanitizeState(EmptyMap, Lit(i)) IN
  /\ heap = san.h
  /\ state = san.v
  /\ subscribers = EmptyMap
  /\ subs = <<>>
  /\ isUpdating = FALSE
  /\ pendingUpdates = <<>>
  /\ updateCount = 0
  /\ timers = <<>>
  /\ pc = "idle"
  /\ cur = NoPass
  /\ task = NoTask
  /\ computedCache = EmptyMap
  /\ computedDependencies = EmptyMap
  /\ hist = InitHist(track)

Init == InitWith(6, FALSE)

Behaviours ==
  {Nop, Behaviour("throwT", <<>>, 0, 0), Behaviour("throwE", <<>>, 0, 0),
   Behaviour("throwN", <<>>, 0, 0)}
    \cup {Behaviour("set", p, v, 0) : p \in {PA, PB}, v \in {1, 2}}
    \cup {Behaviour("sub", p, 0, 0) : p \in {PA, StarPath}}
    \cup {Behaviour("unsub", <<>>, 0, k) : k \in 1..MaxIds}

Next ==
  \/ \E p \in {PA, PB}, i \in {1, 2} : ASet(p, i)
  \/ \E p \in {PA, PB, StarPath} : ASubscribe(p)
  \/ \E k \in 1..MaxIds : AUnsubscribe(k)
  \/ ATimer
  \/ \E b \in Behaviours : ACallback(b)

Spec == Init /\ [][Next]_vars

----------------------------------------------------------------------------
(* Properties of the dispatcher (under Spec) *)

TimerPaths == UNION {Range(timers[i].pending) : i \in 1..Len(timers)}

\* C3: with a subscriber that writes a new value back to its own path on
\* every invocation, one top-level set causes at most maxUpdatesPerCycle
\* notify passes (hist.passes counts the passes since the only mutating
\* call, while every callback has been such a write-back).
C3_StormBounded ==
  (hist.calls = 1 /\ hist.wb) => hist.passes <= maxUpdatesPerCycle

C5_PathBeforeWildcard ==
  (pc = "pass" /\ cur.phase = "global") =>
    \A k \in hist.todo : <<cur.path, k>> \notin Registered(S)

C5_Witness ==
  /\ pc = "pass"
  /\ cur.phase = "global"
  /\ HasNext(S)
  /\ cur.path # StarPath
  /\ \E pk \in Registered(S) : pk[1] = cur.path

\* C6: the subscriber whose callback is about to be invoked is never one
\* whose unsubscribe handle has been called.
C6_UnsubscribedNotInvoked ==
  HasNext(S) => NextSubscriber(S) \notin hist.unsub

\* A subscriber that was to run in the latest pass had its handle called by
\* a callback of that pass before its turn, and the pass ended without it.
C6_Witness ==
  /\ pc = "idle"
  /\ hist.todo \cap hist.unsub # {}

\* C7: pendingUpdates is empty whenever isUpdating is false, it grows only
\* while isUpdating is true, and isUpdating is true exactly during a pass.
C7_PendingOnlyWhileUpdating ==
  /\ [](~isUpdating => pendingUpdates = <<>>)
  /\ [](isUpdating <=> pc = "pass")
  /\ [][~(Range(pendingUpdates') \subseteq Range(pendingUpdates)) => isUpdating]_vars

\* A pass in which a path was queued has ended: the dispatcher is idle, the
\* path is with a scheduled deferred pass.
C7_Witness ==
  /\ ~isUpdating
  /\ pc = "idle"
  /\ timers # <<>>
  /\ pendingUpdates = <<>>

\* C10: a repeated call of an unsubscribe handle leaves everyone who was
\* registered registered, and registers nobody.
C10_UnsubscribeIdempotent == hist.idem

C10_Witness == hist.again

----------------------------------------------------------------------------
(* The store with callers' values: nested and reserved paths, object      *)
(* literals, the bulk operations, and one kind of subscriber, on the path  *)
(* a, that may write to a.  The caller lets a deferred pass run before its *)
(* next call.                                                              *)

\* The store built on {} with calls tracked (the initial state of every
\* specification below that tracks them).
InitStore == InitWith(6, TRUE)

NextStore ==
  \/ \E p \in {PA, <<"a", "b">>, <<"__proto__", "x">>, <<"a", "constructor">>},
        i \in {1, 5} : timers = <<>> /\ ASet(p, i)
  \/ timers = <<>> /\ ASet(PA, 8)
  \/ \E i \in {4, 7} : timers = <<>> /\ AMerge(i)
  \/ \E i \in {0, 1} : timers = <<>> /\ AReset(i)
  \/ timers = <<>> /\ ALoadSnapshot(5)
  \/ \E f \in {"flip", "throw"} : timers = <<>> /\ AUpdate(PA, f)
  \/ timers = <<>> /\ ASubscribe(PA)
  \/ ATimer
  \/ \E b \in {Nop, Behaviour("set", PA, 2, 0), Behaviour("throwN", <<>>, 0, 0)} : ACallback(b)

SpecStore == InitStore /\ [][NextStore]_vars

HasReservedSegment(path) == \E i \in 1..Len(path) : path[i] \in ReservedKeys

\* C1: a top-level path-form set whose path has a reserved segment leaves
\* the tree as it was and requests no notification.
C1_ReservedPathRejected ==
  [][(pc = "idle" /\ hist'.call.op = "set" /\ HasReservedSegment(hist'.call.path))
       => (Content(heap', state') = Content(heap, state) /\ hist'.top = <<>>)]_vars

\* C2: in every state the tree holds no reserved key at any depth.
C2_NoReservedKeyInTree == ~HasReservedKey(Content(heap, state))

\* C8: when a top-level set(p, v) with a valid path p free of reserved
\* segments has returned, get(p) is structurally equal to the sanitized v.
C8_PathRoundTrip ==
  (pc = "idle" /\ hist.call.op = "set" /\ validatePath(hist.call.path)
     /\ ~HasReservedSegment(hist.call.path))
    => Content(heap, Get(S, hist.call.path)) = Sanitized(Lit(hist.call.v))

----------------------------------------------------------------------------
(* The store with one computed entry, "full", over the paths a and b, and  *)
(* callers' subscribers on the path x whose callbacks may set x.           *)

PX == <<"x">>


NextComputed ==
  \/ \E p \in {PA, PB, PX}, i \in {1, 2} : ASet(p, i)
  \/ ASubscribe(PX)
  \/ AComputed("full", <<PA, PB>>)
  \/ ATimer
  \/ \E b \in ({Nop} \cup {Behaviour("set", PX, v, 0) : v \in {1, 2}}) : ACallback(b)

SpecComputed == Init /\ [][NextComputed]_vars

\* Every dependency path of entry `name` has a subscriber made by computed().
DependenciesSubscribed(s, name) ==
  \A p \in Range(s.computedDependencies[name]) :
    /\ p \in DOMAIN s.subscribers
    /\ \E k \in s.subscribers[p] : s.subs[k].kind = "computed" /\ s.subs[k].name = name

\* C9: when computed("full", f, [a, b]) has subscribed to a and b and every
\* mutation since was a top-level path-form set of a or b, then with the
\* call stack empty getComputed("full") equals f() on the current tree.
C9_ComputedConsistent ==
  (pc = "idle" /\ hist.dep /\ "full" \in DOMAIN computedDependencies
     /\ DependenciesSubscribed(S, "full"))
    => getComputed(S, "full") = ComputeFn(S)

----------------------------------------------------------------------------
(* Properties of notification (C11 under SpecStore) *)

\* C11: when a top-level set(p, v) or update(p, f) that changed the value
\* at p has returned, every subscriber that was registered on p when it was
\* called, and still is, has had its callback run in the pass of that call,
\* with (the value at p, p).
C11_SubscribersInvokedOnce ==
  (pc = "idle" /\ hist.call.op = "set" /\ hist.top = hist.call.path)
    => /\ \A k \in hist.owed : <<hist.call.path, k>> \notin Registered(S)
       /\ hist.argok

----------------------------------------------------------------------------
(* The registry at its limit: callers' subscribers on a and on the        *)
(* wildcard, whose callbacks may subscribe, and the subscribers computed() *)
(* makes.                                                                  *)


NextRegistry ==
  \/ \E p \in {PA, StarPath} : ASubscribe(p)
  \/ \E k \in 1..MaxSubs : AUnsubscribe(k)
  \/ AComputed("full", <<PA, PB>>)
  \/ \E i \in {1, 2} : ASet(PA, i)
  \/ \E b \in {Nop, Behaviour("sub", PA, 0, 0)} : ACallback(b)

SpecRegistry == Init /\ [][NextRegistry]_vars

RefusedIds(s) == {k \in 1..Len(s.subs) : s.subs[k].kind = "refused"}

\* C12: the registry never holds more than maxSubscribers subscribers; a
\* top-level subscribe that is refused leaves the registry as it was, and
\* so does a top-level call of the closure it returned.
C12_SubscriberCeiling ==
  /\ [](TotalSubscribers(S) <= maxSubscribers)
  /\ [][(pc = "idle" /\ Len(subs') > Len(subs) /\ Len(subs') \in RefusedIds(S)')
          => (TotalSubscribers(S) = maxSubscribers /\ subscribers' = subscribers)]_vars
  /\ [][(pc = "idle" /\ \E k \in RefusedIds(S) : k \in hist'.unsub \ hist.unsub)
          => subscribers' = subscribers]_vars

\* The registry is full, a subscribe has been refused and the closure it
\* returned has been called.
C12_Witness ==
  /\ TotalSubscribers(S) = maxSubscribers
  /\ RefusedIds(S) \cap hist.unsub # {}

----------------------------------------------------------------------------
(* Properties of failing callbacks (C13, C14 under Spec) *)

RegisteredIds(s) == {pk[2] : pk \in Registered(s)}

\* C13: when a callback has thrown and the pass is over, the dispatcher is
\* not dispatching, no exception has left the call uncaught, and every
\* subscriber of the changed path and every wildcard subscriber that was
\* registered when the pass began, and still is, has had its callback run.
C13_ThrowDoesNotStopPass ==
  (hist.threw /\ pc # "pass")
    => /\ ~isUpdating
       /\ ~hist.thrown
       /\ \A k \in hist.todo \cup hist.todoG : k \notin RegisteredIds(S)

\* Callers' subscribers on a and on the wildcard whose callbacks throw.

NextErrors ==
  \/ \E p \in {PA, StarPath} : ASubscribe(p)
  \/ \E k \in 1..MaxIds : AUnsubscribe(k)
  \/ \E i \in {1, 2} : ASet(PA, i)
  \/ \E b \in {Nop, Behaviour("throwT", <<>>, 0, 0), Behaviour("throwE", <<>>, 0, 0),
               Behaviour("throwN", <<>>, 0, 0)} : ACallback(b)

SpecErrors == InitStore /\ [][NextErrors]_vars

\* C14: once the pass is over, a subscriber whose callback threw a
\* TypeError or ReferenceError is registered nowhere, and it is never the
\* next to be invoked; a subscriber whose callback has just thrown another
\* error is still registered.
C14_EvictionOnDefect ==
  /\ pc # "pass" => hist.evicted \cap RegisteredIds(S) = {}
  /\ HasNext(S) => NextSubscriber(S) \notin hist.evicted
  /\ hist.lastE # 0 => hist.lastE \in RegisteredIds(S)

\* C15: no call of the engine ends with an exception reaching its caller
\* (or escaping the timer callback that made it).
C15_NoThrowToCaller == ~hist.thrown

C17_ShallowMerge == hist.shallow

C17_Witness == hist.replaced /\ hist.shallow /\ pc = "idle" /\ Get(S, <<"b">>) = Scalar(2)

\* Bulk operations with subscribers on a and on the wildcard, whose
\* callbacks may set a or throw null.

NextBulk ==
  \/ \E p \in {PA, StarPath} : timers = <<>> /\ ASubscribe(p)
  \/ timers = <<>> /\ ASet(PA, 1)
  \/ timers = <<>> /\ AMerge(4)
  \/ timers = <<>> /\ AReset(6)
  \/ timers = <<>> /\ ALoadSnapshot(3)
  \/ ATimer
  \/ \E b \in {Nop, Behaviour("set", PA, 2, 0), Behaviour("throwN", <<>>, 0, 0)} : ACallback(b)

SpecBulk == InitStore /\ [][NextBulk]_vars

BulkOps == {"merge", "reset", "load"}

\* C18: a top-level object-form set, reset or loadSnapshot notifies with
\* changedPath "*": its pass has no path phase, and once it is over every
\* wildcard subscriber registered at the call has been invoked.
C18_BulkNotifiesWildcard ==
  hist.call.op \in BulkOps =>
    /\ (pc = "pass" /\ ~task.active) => (cur.phase = "global" /\ cur.path = StarPath)
    /\ pc = "idle" =>
         /\ hist.top = StarPath
         /\ \A k \in hist.owed : <<StarPath, k>> \notin Registered(S)

\* The first arguments callers pass to set: a mapping, an array, a number,
\* the empty and the blank string, and paths of fewer than, exactly and
\* more than maxDepth segments.
Firsts ==
  {ArgMapping("b" :> PS(2)), ArgSequence("0" :> PS(1)), ArgOther,
   ArgPath(<<"">>), ArgPath(<<" ">>), ArgPath(PA),
   ArgPath(<<"a", "b", "x">>), ArgPath(<<"a", "b", "x", "a">>)}

NextArgs ==
  \/ \E p \in {PA, StarPath} : ASubscribe(p)
  \/ \E first \in Firsts, i \in {1, 2} : ASetFirst(first, i)
  \/ ACallback(Nop)

SpecArgs == InitStore /\ [][NextArgs]_vars

\* C19: a set whose first argument is invalid changes nothing: the tree,
\* the registry and the dispatcher are as before and nothing is thrown;
\* after a set of a path of exactly maxDepth segments the path holds the
\* value.
C19_InvalidSetIsNoOp ==
  /\ hist.noop
  /\ (pc = "idle" /\ hist.call.op = "set" /\ Len(hist.call.path) = maxDepth)
       => Get(S, hist.call.path) = Scalar(hist.call.v)

\* Reads of a tree of mappings and scalars, at paths that are omitted,
\* stored, missing, reserved, through a scalar, and inherited names.
GetPaths == {<<>>, PA, PB, <<"a", "b">>, <<"a", "x">>, <<"a", "constructor">>,
             <<"__proto__", "a">>, <<"a", "toString">>, <<"toString">>}

InitGet == \E i \in {5, 6, 7} : InitWith(i, TRUE)

NextGet ==
  \/ \E p \in {PA, <<"a", "b">>}, i \in {0, 1, 8} : ASet(p, i)
  \/ \E p \in GetPaths : AGet(p)

SpecGet == InitGet /\ [][NextGet]_vars

\* What C20 says get returns from value v for path[i..]: undefined as soon
\* as the value reached is not a mapping, the segment is reserved or the
\* segment is missing, else the value stored.
RECURSIVE Stored(_, _, _, _)
Stored(h, v, path, i) ==
  IF i > Len(path) THEN v
  ELSE IF ~IsObj(v) \/ path[i] \in ReservedKeys \/ path[i] \notin DOMAIN h[v.x] THEN Undef
  ELSE Stored(h, h[v.x][path[i]], path, i + 1)

\* C20: get returns the whole tree when the path is omitted and otherwise
\* the value stored at the path, undefined when a segment is missing or
\* reserved or the value reached is not a mapping.
C20_GetWalksOwnTree ==
  hist.got.done => hist.got.c = Content(heap, Stored(heap, state, hist.got.path, 1))

\* C21: after a set made inside a subscriber callback, get of the path
\* inside that callback still returns the value the path held before the
\* set, and no pass for the path has begun before the callback ends.
C21_InnerSetInvisible ==
  /\ ~hist.visible
  /\ hist.req # <<>> /\ pc = "pass" => cur.path = hist.top

\* Snapshots of a tree of scalars (NaN and undefined among them) and
\* nested mappings, taken, written into and loaded back.
NextSnapshot ==
  \/ \E i \in {0, 1, 3, 8} : ASet(PA, i)
  \/ ASet(<<"a", "x">>, 2)
  \/ AGetSnapshot
  \/ ALoadHeld
  \/ ARoundTrip
  \/ \E i \in {1, 2} : APoke(i)

SpecSnapshot == InitStore /\ [][NextSnapshot]_vars

\* C22: a write to the store leaves the snapshot the caller holds as it
\* was, a write into the snapshot object leaves the tree as it was, and
\* loadSnapshot(getSnapshot()) leaves a tree of the same structure.
C22_SnapshotIsDeepCopy ==
  /\ [][hist'.call.op = "set" => Content(heap', hist'.snap) = Content(heap, hist.snap)]_vars
  /\ [][hist'.call.op = "poke" => Content(heap', state') = Content(heap, state)]_vars
  /\ [][hist'.call.op = "roundtrip" => Content(heap', state') = Content(heap, state)]_vars

\* reset with computed entries whose dependency is the path a or the
\* wildcard path, and wildcard subscribers whose callbacks may set a.
NextReset ==
  \/ \E d \in {PA, StarPath} : timers = <<>> /\ AComputed("full", <<d>>)
  \/ \E i \in {1, 2} : timers = <<>> /\ ASet(PA, i)
  \/ \E i \in {0, 7} : timers = <<>> /\ AReset(i)
  \/ timers = <<>> /\ ASubscribe(StarPath)
  \/ ATimer
  \/ \E b \in {Nop, Behaviour("set", PA, 2, 0)} : ACallback(b)

SpecReset == InitStore /\ [][NextReset]_vars

\* C23: when reset(newTree) has returned, the tree is the sanitized newTree
\* (the empty mapping when newTree is omitted) and the computed cache holds
\* no entry.
C23_ResetReplacesAndClears ==
  (hist.call.op = "reset" /\ pc = "idle") =>
    /\ Content(heap, state) = IF Lit(hist.call.v).t = "u" THEN PO(EmptyMap)
                              ELSE Sanitized(Lit(hist.call.v))
    /\ \A name \in {"full"} : getComputed(S, name) = Undef

\* Wildcard subscribers whose callbacks may set a or replace the root by
\* an object-form set, with top-level calls also between a pass and its
\* deferred follow-up pass.

NextWild ==
  \/ timers = <<>> /\ ASubscribe(StarPath)
  \/ ASet(PA, 1)
  \/ AMerge(4)
  \/ ATimer
  \/ \E b \in {Nop, Behaviour("set", PA, 2, 0), Behaviour("merge", <<>>, 4, 0)} : ACallback(b)

SpecWild == InitStore /\ [][NextWild]_vars

\* C24: the first argument a wildcard subscriber is about to be invoked
\* with is the root the store holds at that moment.
C24_WildcardGetsCurrentTree ==
  (HasNext(S) /\ cur.phase = "global") => CallbackArg(S)[1] = state

\* Subscribers of callers and of computed() on a and on the wildcard,
\* registered and unsubscribed at top level and inside callbacks.

NextOrder ==
  \/ \E p \in {PA, StarPath} : ASubscribe(p)
  \/ \E k \in 1..MaxSubs : AUnsubscribe(k)
  \/ \E d \in {PA, StarPath} : AComputed("full", <<d>>)
  \/ \E i \in {1, 2} : ASet(PA, i)
  \/ \E b \in ({Nop} \cup {Behaviour("sub", p, 0, 0) : p \in {PA, StarPath}}
                      \cup {Behaviour("unsub", <<>>, 0, k) : k \in 1..MaxSubs}) : ACallback(b)

SpecOrder == InitStore /\ [][NextOrder]_vars

\* C25: when a subscriber is about to be invoked, every subscriber that
\* was registered before it on the same scope and is still registered has
\* been invoked in this forEach.
C25_RegistrationOrder ==
  HasNext(S) =>
    \A j \in subscribers[IterKey(S)] : j < NextSubscriber(S) => j \in hist.done

\* The third subscriber of a scope is about to be invoked after two others,
\* and a handle has been called before.
C25_Witness ==
  /\ HasNext(S)
  /\ Cardinality(hist.done) = 2
  /\ hist.unsub # {}
  /\ NextSubscriber(S) \in subscribers[IterKey(S)]

\* Subscribers on a, on a.b and on the wildcard; sets of a and of a.b, at
\* top level and inside callbacks.
PAB == <<"a", "b">>
InnerPaths == {PAB}

NextPaths ==
  \/ \E p \in {PA, PAB} : timers = <<>> /\ ASubscribe(p)
  \/ \E d \in {PA, StarPath} : timers = <<>> /\ AComputed("full", <<d>>)
  \/ \E p \in {PA, PAB}, i \in {1, 3} : timers = <<>> /\ ASet(p, i)
  \/ ATimer
  \/ \E b \in ({Nop} \cup {Behaviour("set", p, 2, 0) : p \in InnerPaths}) : ACallback(b)

SpecPaths == InitStore /\ [][NextPaths]_vars

\* C26: the pass of a top-level set(p, v) is a pass for p, a deferred pass
\* is a pass for a path that a callback set, and the subscriber about to
\* be invoked in a pass is registered on exactly the path of the pass or
\* on the wildcard.
C26_ExactPathOnly ==
  /\ (pc = "pass" /\ hist.call.op = "set") => cur.path = hist.call.path
  /\ (pc = "pass" /\ hist.call.op = "timer") => cur.path \in InnerPaths
  /\ HasNext(S) => subs[NextSubscriber(S)].path \in {cur.path, StarPath}

\* In the pass for a.b, with a subscriber registered on the ancestor a that
\* has not been invoked, the wildcard subscriber is about to be invoked.
C26_Witness ==
  /\ HasNext(S)
  /\ cur.path = PAB
  /\ cur.phase = "global"
  /\ PA \in DOMAIN subscribers
  /\ hist.done \cap subscribers[PA] = {}
  /\ Get(S, PAB) # Undef

\* sanitizeState on scalars and on mappings with ordinary, reserved and
\* blank keys, at the top and one level down.
SanInputs ==
  {PS(1), PU} \cup
  UNION {{PO(m) : m \in [K -> {PS(1), PU, PO("constructor" :> PS(1) @@ "x" :> PS(2)),
                              PO(" " :> PS(1) @@ "b" :> PS(2))}]} :
         K \in SUBSET {"a", "__proto__", ""}}

NextSanitize ==
  \/ \E pv \in SanInputs : AHold(pv)
  \/ ASanitize

SpecSanitize == InitStore /\ [][NextSanitize]_vars

\* A structure without its reserved keys, at every depth.
RECURSIVE DropReserved(_)
DropReserved(c) ==
  IF c.t # "o" THEN c
  ELSE PO([key \in DOMAIN c.m \ ReservedKeys |-> DropReserved(c.m[key])])

\* The objects a value reaches.
RECURSIVE Reach(_, _)
Reach(h, v) ==
  IF ~IsObj(v) THEN {}
  ELSE {v.x} \cup UNION {Reach(h, h[v.x][key]) : key \in DOMAIN h[v.x]}

\* What holds of a call of sanitizeState whatever the keys: the input is
\* as it was, a scalar is returned as it is, and the result of an object
\* shares no object with the input.
SanitizeCopies ==
  hist'.call.op = "sanitize" =>
    /\ Content(heap', hist'.snap) = Content(heap, hist.snap)
    /\ ~IsObj(hist.snap) => hist'.out = hist.snap
    /\ Reach(heap', hist'.out) \cap Reach(heap', hist'.snap) = {}

\* C27: sanitizeState leaves its input alone, returns a scalar as it is
\* and for a mapping a fresh copy without the reserved keys and without
\* the empty and whitespace-only keys, at every depth, every other key
\* with its sanitized value.
C27_SanitizeDropsReservedAndBlank ==
  [][/\ SanitizeCopies
     /\ hist'.call.op = "sanitize" =>
          Content(heap', hist'.out) = Sanitized(Content(heap, hist.snap))]_vars

\* C27 as stated: the reserved keys are the only keys dropped.
C27_SanitizeDropsReservedOnly ==
  [][/\ SanitizeCopies
     /\ hist'.call.op = "sanitize" =>
          Content(heap', hist'.out) = DropReserved(Content(heap, hist.snap))]_vars

\* A mapping with a reserved key at the top and one level down has been
\* sanitized.
C27_Witness ==
  /\ hist.call.op = "sanitize"
  /\ IsObj(hist.snap) /\ IsObj(hist.out)
  /\ "__proto__" \in DOMAIN heap[hist.snap.x]
  /\ "a" \in DOMAIN heap[hist.out.x] /\ IsObj(heap[hist.out.x]["a"])
  /\ "constructor" \in DOMAIN heap[heap[hist.snap.x]["a"].x]
  /\ DOMAIN heap[heap[hist.out.x]["a"].x] = {"x"}

\* sanitizeState on values nested up to one level deeper than maxDepth,
\* and on values that refer to themselves.
RECURSIVE Chains(_)
Chains(d) ==
  IF d = 0 THEN {PS(1), PS(2), PU}
  ELSE {PO(key :> c) : key \in {"a", "b"}, c \in Chains(d - 1)}
DeepInputs == UNION {Chains(d) : d \in 1..(maxDepth + 1)}

NextDeep ==
  \/ \E pv \in DeepInputs : AHold(pv)
  \/ ATie
  \/ ASanitize

SpecDeep == InitStore /\ [][NextDeep]_vars

\* C28: sanitizeState raises nothing, and what it returns is nested no
\* deeper than maxDepth.
C28_SanitizeDepthCeiling ==
  hist.call.op = "sanitize" =>
    /\ ~hist.thrown
    /\ ~NestedAtLeast(heap, hist.out, maxDepth + 1)

\* The update budget in a deferred pass: two subscribers whose callbacks
\* set other paths, top-level sets while timers are waiting.

NextBreaker ==
  \/ \E p \in {PA, PB, StarPath} : timers = <<>> /\ ASubscribe(p)
  \/ \E i \in {1, 2} : ASet(PA, i)
  \/ ATimer
  \/ \E b \in {Nop, Behaviour("set", PB, 1, 0), Behaviour("set", PB, 2, 0),
               Behaviour("set", PX, 2, 0)} : ACallback(b)

SpecBreaker == InitStore /\ [][NextBreaker]_vars

\* C29: once notifySubscribers has found updateCount above
\* maxUpdatesPerCycle, no callback is invoked in what remains of the
\* top-level call or timer callback under way, pendingUpdates is empty and
\* updateCount is 0.
C29_BreakerAbortsBurst ==
  hist.tripped =>
    /\ ~HasNext(S)
    /\ pendingUpdates = <<>>
    /\ updateCount = 0

\* The pending paths and the timer callback that drains them: two
\* subscribers whose callbacks set other paths or throw null.

NextDrain ==
  \/ \E p \in {PA, StarPath} : timers = <<>> /\ ASubscribe(p)
  \/ \E i \in {1, 2} : timers = <<>> /\ ASet(PA, i)
  \/ ATimer
  \/ \E b \in {Nop, Behaviour("set", PB, 1, 0), Behaviour("set", PB, 2, 0),
               Behaviour("set", PX, 2, 0), Behaviour("throwN", <<>>, 0, 0)} : ACallback(b)

SpecDrain == InitStore /\ [][NextDrain]_vars

\* The distinct entries of a sequence, each at its first position.
FirstQueued(seq) ==
  LET firsts == {i \in 1..Len(seq) : \A j \in 1..(i - 1) : seq[j] # seq[i]}
      nth(n) == CHOOSE i \in firsts : Cardinality({j \in firsts : j < i}) = n - 1
  IN [n \in 1..Cardinality(firsts) |-> seq[nth(n)]]

\* C30: during a pass pendingUpdates holds the paths queued in that pass,
\* each once, in the order of their first queueing; the timer callback
\* hands the paths of its list to notifySubscribers one by one in that
\* order and leaves none out.
C30_PendingInFirstQueuedOrder ==
  /\ pc = "pass" => pendingUpdates = FirstQueued(hist.reqs)
  /\ \A i \in 1..Len(timers) : timers[i].pending = FirstQueued(timers[i].pending)
  /\ task.active => hist.order \o task.rest = hist.queue
  /\ ~hist.dropped

\* The dispatch cycle: top-level sets, also while a timer is outstanding,
\* and callbacks that set b to 2, which changes it once, or throw null.
NextCycle ==
  \/ \E p \in {PA, StarPath} : timers = <<>> /\ ASubscribe(p)
  \/ \E i \in {1, 2} : ASet(PA, i)
  \/ ATimer
  \/ \E b \in {Nop, Behaviour("set", PB, 2, 0), Behaviour("throwN", <<>>, 0, 0)} : ACallback(b)

SpecCycle == InitStore /\ [][NextCycle]_vars

\* C31: once the dispatcher is at rest, with no pass under way and no
\* timer outstanding (nothing more happens until the next top-level call),
\* the cycle record is clean: isUpdating false, pendingUpdates empty and
\* updateCount 0.
C31_CleanAtRest ==
  (pc = "idle" /\ timers = <<>>) =>
    (~isUpdating /\ pendingUpdates = <<>> /\ updateCount = 0)

\* A computed entry on a whose computeFn may throw when a dependency
\* notification re-invokes it, with callers' subscribers on a and on the
\* wildcard registered after it.
NextFail ==
  \/ AComputed("full", <<PA>>)
  \/ \E p \in {PA, StarPath} : ASubscribe(p)
  \/ \E i \in {1, 2} : ASet(PA, i)
  \/ \E b \in {Nop} \cup {Behaviour(op, <<>>, 0, 0) : op \in FailOps} : ACallback(b)

SpecFail == InitStore /\ [][NextFail]_vars

\* C32: when computeFn throws in the callback of a dependency, the cache
\* is left as it was; and once the pass is over no exception has reached
\* the caller of set, and every subscriber of the changed path and every
\* wildcard subscriber that was registered when the pass began, and still
\* is, has had its callback run.
C32_FailingComputeFn ==
  /\ [][(HasNext(S) /\ subs[NextSubscriber(S)].kind = "computed" /\ ~hist.threw /\ hist'.threw)
          => computedCache' = computedCache]_vars
  /\ [](("full" \in DOMAIN computedCache /\ hist.threw /\ pc # "pass")
          => /\ ~hist.thrown
             /\ \A k \in hist.todo \cup hist.todoG : k \notin RegisteredIds(S))

\* A computed entry on a and b under the mutations that change what it
\* reads: path-form sets of a dependency and of a path below one, a
\* mapping-form set and a restored snapshot.
NextStale ==
  \/ AComputed("full", <<PA, PB>>)
  \/ \E p \in {PA, PB}, i \in {1, 2} : ASet(p, i)
  \/ ASet(PAB, 1)
  \/ AMerge(7)
  \/ ALoadSnapshot(7)
  \/ ACallback(Nop)

SpecStale == InitStore /\ [][NextStale]_vars

\* C33: when the dispatcher is idle with no timer outstanding, the cached
\* value of the computed entry equals computeFn() on the current tree.
C33_CacheFreshAtRest ==
  (pc = "idle" /\ timers = <<>> /\ "full" \in DOMAIN computedCache) =>
    computedCache["full"] = ComputeFn(S)

\* C34: the callback of a computed entry's dependency adds no subscriber:
\* the step that runs it leaves the registry no larger than it was.
C34_RecomputeAddsNoSubscriber ==
  [][(HasNext(S) /\ subs[NextSubscriber(S)].kind = "computed")
       => TotalSubscribers(S)' <= TotalSubscribers(S)]_vars

\* C35: a top-level path-form set never finds the update budget exceeded,
\* and when it has changed the value and returned, every subscriber that
\* was registered on its path when it was called, and still is, has had
\* its callback run.
C35_FreshBudgetPerSet ==
  hist.call.op = "set" =>
    /\ ~hist.tripped
    /\ (pc = "idle" /\ hist.top = hist.call.path) =>
         \A k \in hist.owed : <<hist.call.path, k>> \notin Registered(S)

\* Whether sequence r is an initial part of sequence p.
IsPrefix(r, p) == Len(r) <= Len(p) /\ SubSeq(p, 1, Len(r)) = r

\* C36: a top-level path-form set(p, v) leaves get(q) as it was for every
\* path q that is neither an initial part of p nor extends p, and leaves a
\* scalar stored at a proper initial part of p as it was.
C36_SetIsLocal ==
  [][(pc = "idle" /\ hist'.call.op = "set") =>
       \A q \in {PA, PB, PAB, <<"a", "x">>} :
         /\ (~IsPrefix(q, hist'.call.path) /\ ~IsPrefix(hist'.call.path, q))
              => Content(heap', Get(S, q)') = Content(heap, Get(S, q))
         /\ (IsPrefix(q, hist'.call.path) /\ q # hist'.call.path /\ Get(S, q).t = "s")
              => Get(S, q)' = Get(S, q)]_vars

\* C37: while a path queued for a timer callback still waits and has
\* subscribers to be notified (its own or wildcard ones), no callback is
\* invoked for a set issued later at top level.
C37_IssueOrder ==
  (HasNext(S) /\ ~task.active) =>
    \A i \in 1..Len(timers) : \A p \in Range(timers[i].pending) :
      p \notin DOMAIN subscribers /\ StarPath \notin DOMAIN subscribers

\* C38: the subscriber about to be invoked in a pass was registered, on
\* the changed path or as wildcard, when the pass began.
C38_OnlySubscribersAtStart ==
  HasNext(S) =>
    NextSubscriber(S) \in (IF cur.phase = "path" THEN hist.todo ELSE hist.todoG)

\* C39: while no computed entry is registered (reset has cleared the
\* dependencies and computed() has not been called since), getComputed
\* returns undefined, also after path-form sets.
C39_ResetDisposesComputed ==
  (hist.call.op = "set" /\ "full" \notin DOMAIN computedDependencies) =>
    getComputed(S, "full") = Undef

====
